---- MODULE Spec2Model ----
(***************************************************************************)
(* Model of twitch_analyzer.py: the windowed chat-activity engine.         *)
(*                                                                         *)
(* Python values are modelled as follows.                                  *)
(*   Optional[int]   the empty set for None, {v} for the integer v         *)
(*   dict            a function whose DOMAIN is the set of keys            *)
(*   list            a sequence                                            *)
(*   message         [time_in_seconds |-> t, message |-> m]                *)
(*   str             a sequence of one-character strings                   *)
(*   int / float     a fraction <<n, d>> in lowest terms, d >= 1           *)
(*                   (only slopes are fractions; <<1, 0>> stands for the   *)
(*                   float +infinity, which the code never computes)       *)
(***************************************************************************)
EXTENDS Integers, Sequences, FiniteSets, TLC

VARIABLES chat_data, window_size, start_time, end_time, num_moments,
          all_moments, use_ratio, time_str,
          pc, outcome,
          messages_by_window, activity_by_window, slopes, top_moments, moments

vars == <<chat_data, window_size, start_time, end_time, num_moments,
          all_moments, use_ratio, time_str, pc, outcome,
          messages_by_window, activity_by_window, slopes, top_moments, moments>>

inputs == <<chat_data, window_size, start_time, end_time, num_moments,
            all_moments, use_ratio, time_str>>

-----------------------------------------------------------------------------
(* Bounds of the model *)

\* longest chat log
MaxLen == 3
\* largest time_in_seconds of a message and largest explicit range bound
MaxTime == 3
\* largest window size
MaxW == 2
\* largest result cap
MaxK == 2

(* Program constants *)
DEFAULT_WINDOW_SIZE == 10
DEFAULT_NUM_MOMENTS == 50

-----------------------------------------------------------------------------
(* Python helpers *)

None == {}
Some(v) == {v}
Val(opt) == CHOOSE v \in opt : TRUE

\* Python's `x or default` on an Optional[int]: None and 0 are both falsy
PyOr(opt, default) == IF opt = None \/ opt = Some(0) THEN default ELSE Val(opt)

\* Python's a // b (floor division), b # 0
FloorDiv(a, b) == IF b > 0 THEN a \div b ELSE (0 - a) \div (0 - b)

EmptyDict == [k \in {} |-> 0]

Range(s) == {s[i] : i \in 1..Len(s)}

SetMin(S) == CHOOSE x \in S : \A y \in S : x <= y
SetMax(S) == CHOOSE x \in S : \A y \in S : y <= x

Min2(a, b) == IF a <= b THEN a ELSE b

Abs(n) == IF n < 0 THEN 0 - n ELSE n

RECURSIVE GCD(_, _)
GCD(a, b) == IF b = 0 THEN a ELSE GCD(b, a % b)

\* a number n/d as a fraction in lowest terms (d >= 1)
Frac(n, d) == LET g == GCD(Abs(n), d) IN <<n \div g, d \div g>>

FracLess(x, y) == x[1] * y[2] < y[1] * x[2]
FracPositive(x) == x[1] > 0

\* sorted(S) for a set of integers
RECURSIVE SortedSet(_)
SortedSet(S) == IF S = {} THEN << >>
                ELSE LET m == SetMin(S) IN <<m>> \o SortedSet(S \ {m})

-----------------------------------------------------------------------------
(* Input domains *)

Times == 0..MaxTime
OptTimes == {None} \cup {Some(t) : t \in Times}
WindowSizes == 0..MaxW
NumMoments == {None} \cup {Some(k) : k \in 0..MaxK}

TimeSeqs == UNION {[1..n -> Times] : n \in 0..MaxLen}

\* a chat log whose messages carry their position as text
MkChat(ts) == [i \in 1..Len(ts) |-> [time_in_seconds |-> ts[i], message |-> i]]
ChatLogs == {MkChat(ts) : ts \in TimeSeqs}

ChatTimes(chat) == {chat[i].time_in_seconds : i \in 1..Len(chat)}

-----------------------------------------------------------------------------
(* group_messages_by_window *)

GroupStart(chat, st) == PyOr(st, SetMin(ChatTimes(chat)))
GroupEnd(chat, et) == PyOr(et, SetMax(ChatTimes(chat)))

\* the messages that pass the range test of line 39
GroupInRange(chat, st, et) ==
    {i \in 1..Len(chat) : /\ GroupStart(chat, st) <= chat[i].time_in_seconds
                          /\ chat[i].time_in_seconds <= GroupEnd(chat, et)}

\* line 40 divides by window_size for every message that is in range
GroupRaisesZeroDivision(chat, W, st, et) ==
    chat # << >> /\ W = 0 /\ GroupInRange(chat, st, et) # {}

group_messages_by_window(chat, W, st, et) ==
    IF chat = << >> THEN EmptyDict
    ELSE LET s == GroupStart(chat, st)
             in == GroupInRange(chat, st, et)
             window(i) == FloorDiv(chat[i].time_in_seconds - s, W)
             keys == {window(i) : i \in in}
             Bucket(w) ==
                 LET idx == SortedSet({i \in in : window(i) = w})
                 IN  [j \in 1..Len(idx) |-> chat[idx[j]]]
         IN  [w \in keys |-> Bucket(w)]

(* calculate_activity *)
calculate_activity(mbw) == [w \in DOMAIN mbw |-> Len(mbw[w])]

(* calculate_slope *)
SlopeValue(current_activity, previous_activity, ratio) ==
    IF ratio /\ previous_activity > 0
    THEN Frac(current_activity - previous_activity, previous_activity)
    ELSE Frac(current_activity - previous_activity, 1)

\* variant: the predecessor is taken to be index w - 1, absent meaning no activity
calculate_slope_Dense(activity, ratio) ==
    [w \in {k \in DOMAIN activity : \E v \in DOMAIN activity : v < k} |->
        SlopeValue(activity[w],
                   IF w - 1 \in DOMAIN activity THEN activity[w - 1] ELSE 0, ratio)]

calculate_slope(activity, ratio) ==
    LET windows == SortedSet(DOMAIN activity)
    IN  [w \in {windows[i] : i \in 2..Len(windows)} |->
            LET i == CHOOSE j \in 2..Len(windows) : windows[j] = w
            IN  SlopeValue(activity[windows[i]], activity[windows[i-1]], ratio)]

(* select_top_moments *)
\* the sort key (-slopes[w], w) of line 69
KeyBefore(sl, a, b) == \/ FracLess(sl[b], sl[a])
                       \/ sl[a] = sl[b] /\ a < b

RECURSIVE SortedByKey(_, _)
SortedByKey(S, sl) ==
    IF S = {} THEN << >>
    ELSE LET m == CHOOSE x \in S : \A y \in S \ {x} : KeyBefore(sl, x, y)
         IN  <<m>> \o SortedByKey(S \ {m}, sl)

\* variant: the slice keeps one window too many
select_top_moments_OffByOne(sl, n) ==
    LET sorted_moments == SortedByKey(DOMAIN sl, sl)
    IN  IF Len(sorted_moments) > n THEN SubSeq(sorted_moments, 1, n + 1)
        ELSE sorted_moments

select_top_moments(sl, n) ==
    LET sorted_moments == SortedByKey(DOMAIN sl, sl)
    IN  IF Len(sorted_moments) > n THEN SubSeq(sorted_moments, 1, n)
        ELSE sorted_moments

(* format_timestamp: str(timedelta(seconds)) as <<days, hours, minutes, seconds>> *)
format_timestamp(seconds) ==
    <<seconds \div 86400, (seconds % 86400) \div 3600,
      (seconds % 3600) \div 60, seconds % 60>>

(* create_moment_data *)
\* lines 76-87: one record per selected window with a non-empty bucket
RECURSIVE MomentList(_, _, _, _)
MomentList(top, mbw, activity, sl) ==
    IF top = << >> THEN << >>
    ELSE LET window == Head(top)
             messages == mbw[window]
             rest == MomentList(Tail(top), mbw, activity, sl)
         IN  IF messages # << >>
             THEN <<[timestamp |-> messages[1].time_in_seconds,
                     formatted_time |-> format_timestamp(messages[1].time_in_seconds),
                     message_count |-> activity[window],
                     slope |-> sl[window],
                     messages |-> messages]>> \o rest
             ELSE rest

\* line 88: sorted(moment_data, key=timestamp), a stable sort
\* variant: an unstable sort, which puts a moment before those of equal timestamp
RECURSIVE InsertByTimestamp_Unstable(_, _)
InsertByTimestamp_Unstable(sorted, m) ==
    IF sorted = << >> THEN <<m>>
    ELSE IF Head(sorted).timestamp < m.timestamp
         THEN <<Head(sorted)>> \o InsertByTimestamp_Unstable(Tail(sorted), m)
         ELSE <<m>> \o sorted

RECURSIVE InsertByTimestamp(_, _)
InsertByTimestamp(sorted, m) ==
    IF sorted = << >> THEN <<m>>
    ELSE IF Head(sorted).timestamp <= m.timestamp
         THEN <<Head(sorted)>> \o InsertByTimestamp(Tail(sorted), m)
         ELSE <<m>> \o sorted

RECURSIVE SortedByTimestamp(_)
SortedByTimestamp(md) ==
    IF md = << >> THEN << >>
    ELSE InsertByTimestamp(SortedByTimestamp(SubSeq(md, 1, Len(md) - 1)), md[Len(md)])

create_moment_data(top, mbw, activity, sl, W) ==
    SortedByTimestamp(MomentList(top, mbw, activity, sl))

(* validate_input *)
ValidateRaises(W, n) == W <= 0 \/ n <= 0

-----------------------------------------------------------------------------
(* analyze_chat_moments *)

\* lines 118-122: fill the gaps of an explicit range with empty buckets
Densify(mbw, W, st, et) ==
    IF st # None /\ et # None
    THEN LET total_windows == FloorDiv(Val(et) - Val(st), W) + 1
         IN  [w \in DOMAIN mbw \cup 0..(total_windows - 1) |->
                 IF w \in DOMAIN mbw THEN mbw[w] ELSE << >>]
    ELSE mbw

Call(out, mbw, activity, sl, top, result) ==
    [outcome |-> out, messages_by_window |-> mbw, activity_by_window |-> activity,
     slopes |-> sl, top_moments |-> top, moments |-> result]

analyze_chat_moments(chat, W, st, et, n, all, ratio) ==
    IF chat = << >>
    THEN Call("return", EmptyDict, EmptyDict, EmptyDict, << >>, << >>)
    ELSE IF ~all /\ n # None /\ ValidateRaises(W, Val(n))
    THEN Call("ValueError", EmptyDict, EmptyDict, EmptyDict, << >>, << >>)
    ELSE IF GroupRaisesZeroDivision(chat, W, st, et)
    THEN Call("ZeroDivisionError", EmptyDict, EmptyDict, EmptyDict, << >>, << >>)
    ELSE LET grouped == group_messages_by_window(chat, W, st, et)
         IN  IF DOMAIN grouped = {}
             THEN Call("return", grouped, EmptyDict, EmptyDict, << >>, << >>)
             ELSE LET mbw == Densify(grouped, W, st, et)
                      activity == calculate_activity(mbw)
                      sl == calculate_slope(activity, ratio)
                      positive_slopes ==
                          [w \in {k \in DOMAIN sl : FracPositive(sl[k])} |-> sl[w]]
                      top == IF all THEN SortedSet(DOMAIN sl)
                             ELSE select_top_moments(positive_slopes,
                                                     PyOr(n, DEFAULT_NUM_MOMENTS))
                  IN  Call("return", mbw, activity, sl, top,
                           create_moment_data(top, mbw, activity, sl, W))

-----------------------------------------------------------------------------
(* One run of analyze_chat_moments on arbitrary arguments *)

NoResult ==
    /\ outcome = "none"
    /\ messages_by_window = EmptyDict
    /\ activity_by_window = EmptyDict
    /\ slopes = EmptyDict
    /\ top_moments = << >>
    /\ moments = << >>

Init ==
    /\ time_str = << >>
    /\ chat_data \in ChatLogs
    /\ window_size \in WindowSizes
    /\ start_time \in OptTimes
    /\ end_time \in OptTimes
    /\ num_moments \in NumMoments
    /\ all_moments \in BOOLEAN
    /\ use_ratio \in BOOLEAN
    /\ pc = "call"
    /\ NoResult

Analyze ==
    /\ pc = "call"
    /\ \E r \in {analyze_chat_moments(chat_data, window_size, start_time, end_time,
                                      num_moments, all_moments, use_ratio)} :
           /\ outcome' = r.outcome
           /\ messages_by_window' = r.messages_by_window
           /\ activity_by_window' = r.activity_by_window
           /\ slopes' = r.slopes
           /\ top_moments' = r.top_moments
           /\ moments' = r.moments
    /\ pc' = "done"
    /\ UNCHANGED inputs

Next == Analyze

Spec == Init /\ [][Next]_vars

-----------------------------------------------------------------------------
(* group_messages_by_window followed by calculate_activity, called directly *)

InitGroup ==
    /\ time_str = << >>
    /\ chat_data \in ChatLogs
    /\ window_size \in 1..MaxW
    /\ start_time \in OptTimes
    /\ end_time \in OptTimes
    /\ num_moments = None
    /\ all_moments = FALSE
    /\ use_ratio = FALSE
    /\ pc = "call"
    /\ NoResult

Group ==
    /\ pc = "call"
    /\ messages_by_window' =
           group_messages_by_window(chat_data, window_size, start_time, end_time)
    /\ outcome' = "return"
    /\ pc' = "grouped"
    /\ UNCHANGED <<inputs, activity_by_window, slopes, top_moments, moments>>

Activity ==
    /\ pc = "grouped"
    /\ activity_by_window' = calculate_activity(messages_by_window)
    /\ pc' = "done"
    /\ UNCHANGED <<inputs, outcome, messages_by_window, slopes, top_moments, moments>>

NextGroup == Group \/ Activity

SpecGroup == InitGroup /\ [][NextGroup]_vars

-----------------------------------------------------------------------------
(* calculate_slope, called directly on an arbitrary activity map *)

\* largest window index and largest activity of a drawn activity map
MaxWin == 3
MaxAct == 4

ActivityMaps == UNION {[S -> 0..MaxAct] : S \in SUBSET (0..MaxWin)}

InitSlope ==
    /\ time_str = << >>
    /\ chat_data = << >>
    /\ window_size = DEFAULT_WINDOW_SIZE
    /\ start_time = None
    /\ end_time = None
    /\ num_moments = None
    /\ all_moments = FALSE
    /\ use_ratio \in BOOLEAN
    /\ pc = "call"
    /\ outcome = "none"
    /\ messages_by_window = EmptyDict
    /\ activity_by_window \in ActivityMaps
    /\ slopes = EmptyDict
    /\ top_moments = << >>
    /\ moments = << >>

Slope ==
    /\ pc = "call"
    /\ slopes' = calculate_slope(activity_by_window, use_ratio)
    /\ outcome' = "return"
    /\ pc' = "done"
    /\ UNCHANGED <<inputs, messages_by_window, activity_by_window, top_moments, moments>>

NextSlope == Slope

SpecSlope == InitSlope /\ [][NextSlope]_vars

-----------------------------------------------------------------------------
(* create_moment_data, called directly on an arbitrary selection *)

\* largest window index and largest message time of a drawn bucket, and the
\* longest drawn selection
MaxBucketWin == 1
MaxBucketTime == 1
MaxSel == 3

BucketLogs == {MkChat(ts) : ts \in UNION {[1..n -> 0..MaxBucketTime] : n \in 0..MaxLen}}

\* the bucket that puts message i of the chat log in window place[i]
BucketOf(chat, place) ==
    [w \in 0..MaxBucketWin |->
        LET idx == SortedSet({i \in 1..Len(chat) : place[i] = w})
        IN  [j \in 1..Len(idx) |-> chat[idx[j]]]]

Buckets == UNION {{BucketOf(chat, place) : place \in [1..Len(chat) -> 0..MaxBucketWin]} :
                  chat \in BucketLogs}

Selections == UNION {[1..n -> 0..MaxBucketWin] : n \in 0..MaxSel}

InitCreate ==
    /\ time_str = << >>
    /\ chat_data = << >>
    /\ window_size = DEFAULT_WINDOW_SIZE
    /\ start_time = None
    /\ end_time = None
    /\ num_moments = None
    /\ all_moments = FALSE
    /\ use_ratio = FALSE
    /\ pc = "call"
    /\ outcome = "none"
    /\ messages_by_window \in Buckets
    /\ activity_by_window = calculate_activity(messages_by_window)
    /\ slopes = [w \in DOMAIN messages_by_window |-> Frac(activity_by_window[w], 1)]
    /\ top_moments \in Selections
    /\ moments = << >>

Create ==
    /\ pc = "call"
    /\ moments' = create_moment_data(top_moments, messages_by_window,
                                     activity_by_window, slopes, window_size)
    /\ outcome' = "return"
    /\ pc' = "done"
    /\ UNCHANGED <<inputs, messages_by_window, activity_by_window, slopes, top_moments>>

NextCreate == Create

SpecCreate == InitCreate /\ [][NextCreate]_vars

-----------------------------------------------------------------------------
(* time_to_seconds, called directly on an arbitrary string *)

\* most ':'-separated fields of a time string, and longest field
MaxFields == 4
MaxFieldLen == 2

Digits == {"0", "1", "3"}
Chars == Digits \cup {":", "a"}

\* ':'.join(fields)
RECURSIVE Join(_)
Join(fields) ==
    IF Len(fields) = 1 THEN fields[1]
    ELSE fields[1] \o <<":">> \o Join(Tail(fields))

\* the fields of at most len characters, and the strings of at most n such fields
FieldTexts(len) == UNION {[1..k -> Chars \ {":"}] : k \in 0..len}
TimeStrings(n, len) == {Join(fs) : fs \in UNION {[1..k -> FieldTexts(len)] : k \in 1..n}}

DigitValue(c) == IF c = "0" THEN 0 ELSE IF c = "1" THEN 1 ELSE 3

\* time_str.split(':')
RECURSIVE Split(_)
Split(str) ==
    IF \A i \in 1..Len(str) : str[i] # ":" THEN <<str>>
    ELSE LET k == SetMin({i \in 1..Len(str) : str[i] = ":"})
         IN  <<SubSeq(str, 1, k - 1)>> \o Split(SubSeq(str, k + 1, Len(str)))

\* int(field) raises ValueError on the empty string and on a non-digit
IntRaises(field) == field = << >> \/ \E i \in 1..Len(field) : field[i] \notin Digits

RECURSIVE IntOf(_)
IntOf(field) ==
    IF field = << >> THEN 0
    ELSE 10 * IntOf(SubSeq(field, 1, Len(field) - 1)) + DigitValue(field[Len(field)])

\* zip(['hours', 'minutes', 'seconds'], map(int, ...)): the lazy map converts
\* only the fields that zip pairs with a name, the first three at most
Zipped(fields) == SubSeq(fields, 1, Min2(3, Len(fields)))

time_to_seconds(str) ==
    LET named == Zipped(Split(str))
        Field(i) == IF i <= Len(named) THEN IntOf(named[i]) ELSE 0
    IN  IF \E i \in 1..Len(named) : IntRaises(named[i])
        THEN [outcome |-> "ValueError", seconds |-> None]
        ELSE [outcome |-> "return",
              seconds |-> Some(Field(1) * 3600 + Field(2) * 60 + Field(3))]

InitTime ==
    /\ chat_data = << >>
    /\ window_size = DEFAULT_WINDOW_SIZE
    /\ start_time = None
    /\ end_time = None
    /\ num_moments = None
    /\ all_moments = FALSE
    /\ use_ratio = FALSE
    /\ time_str \in TimeStrings(MaxFields, MaxFieldLen)
    /\ pc = "call"
    /\ NoResult

\* main, line 209: start_time = time_to_seconds(args.start_time)
ParseTime ==
    /\ pc = "call"
    /\ \E r \in {time_to_seconds(time_str)} :
           /\ outcome' = r.outcome
           /\ start_time' = r.seconds
    /\ pc' = "done"
    /\ UNCHANGED <<chat_data, window_size, end_time, num_moments, all_moments,
                   use_ratio, time_str, messages_by_window, activity_by_window,
                   slopes, top_moments, moments>>

NextTime == ParseTime

SpecTime == InitTime /\ [][NextTime]_vars

-----------------------------------------------------------------------------
(* Properties *)

Returned == pc = "done" /\ outcome = "return"

HasCap == num_moments # None

\* the present window just below w in a dict d
PrevKey(d, w) == SetMax({v \in DOMAIN d : v < w})

\* C1: every call of analyze_chat_moments with window_size <= 0 or with
\* num_moments <= 0 ends in ValueError and returns no moment list, whatever the
\* event list, the range, all_moments and use_ratio are.
C1_AlwaysValueError ==
    (pc = "done" /\ (window_size <= 0 \/ (HasCap /\ Val(num_moments) <= 0)))
        => outcome = "ValueError"

\* C2: for a non-empty event list, a valid window size and cap and no explicit
\* range, analyze_chat_moments returns min(num_moments, number of non-empty
\* windows) moments, one for each of the highest-activity windows.
NonEmptyWindows(mbw) == {w \in DOMAIN mbw : mbw[w] # << >>}

TopByActivity(mbw, n) ==
    LET activity == calculate_activity(mbw)
        rank == [w \in NonEmptyWindows(mbw) |-> Frac(activity[w], 1)]
        ranked == SortedByKey(DOMAIN rank, rank)
    IN  {ranked[i] : i \in 1..Min2(n, Len(ranked))}

C2_TopActivityMoments ==
    (/\ pc = "done"
     /\ chat_data # << >>
     /\ window_size > 0
     /\ HasCap /\ Val(num_moments) > 0
     /\ start_time = None /\ end_time = None
     /\ ~all_moments)
        => LET mbw == group_messages_by_window(chat_data, window_size, None, None)
               top == TopByActivity(mbw, Val(num_moments))
           IN  /\ outcome = "return"
               /\ Len(moments) = Min2(Val(num_moments), Cardinality(NonEmptyWindows(mbw)))
               /\ {moments[i].messages : i \in 1..Len(moments)} = {mbw[w] : w \in top}

\* C3: in ratio mode calculate_slope gives, for consecutive present windows with
\* previous activity p and current activity c, +infinity when p = 0 and c > 0,
\* -1 when p > 0 and c = 0, 0 when p = 0 and c = 0, and c/p - 1 when p > 0.
Infinity == <<1, 0>>

RatioSentinel(c, p) ==
    IF p = 0 /\ c > 0 THEN Infinity
    ELSE IF p > 0 /\ c = 0 THEN <<0 - 1, 1>>
    ELSE IF p = 0 /\ c = 0 THEN <<0, 1>>
    ELSE Frac(c - p, p)

C3_RatioSentinels ==
    (Returned /\ use_ratio)
        => \A w \in DOMAIN activity_by_window :
               (\E v \in DOMAIN activity_by_window : v < w)
                   => /\ w \in DOMAIN slopes
                      /\ slopes[w] = RatioSentinel(activity_by_window[w],
                             activity_by_window[PrevKey(activity_by_window, w)])

\* the range the caller asked for: a supplied bound as given (0 included), a
\* missing bound replaced by the least / greatest message time
AskedStart(chat, st) == IF st = None THEN SetMin(ChatTimes(chat)) ELSE Val(st)
AskedEnd(chat, et) == IF et = None THEN SetMax(ChatTimes(chat)) ELSE Val(et)

AskedInRange(chat, st, et) ==
    {i \in 1..Len(chat) : /\ AskedStart(chat, st) <= chat[i].time_in_seconds
                          /\ chat[i].time_in_seconds <= AskedEnd(chat, et)}

\* the windows of a bucket that hold message m
WindowsOf(mbw, m) == {w \in DOMAIN mbw : m \in Range(mbw[w])}

RECURSIVE SumValues(_)
SumValues(d) ==
    IF DOMAIN d = {} THEN 0
    ELSE LET k == CHOOSE x \in DOMAIN d : TRUE
         IN  d[k] + SumValues([x \in DOMAIN d \ {k} |-> d[x]])

\* C4: with start_time <= end_time both explicit and W > 0, the bucket of the
\* run holds every window index 0..(end_time - start_time)//W and no other, and
\* every message with start_time <= time <= end_time is in exactly one bucket.
C4_DenseBucket ==
    (/\ Returned
     /\ chat_data # << >>
     /\ window_size > 0
     /\ start_time # None /\ end_time # None
     /\ Val(start_time) <= Val(end_time))
        => /\ DOMAIN messages_by_window =
                  0..FloorDiv(Val(end_time) - Val(start_time), window_size)
           /\ \A i \in AskedInRange(chat_data, start_time, end_time) :
                  Cardinality(WindowsOf(messages_by_window, chat_data[i])) = 1

\* C5: the activity counts of the grouped messages add up to the number of
\* messages whose time lies in the asked range; messages outside are not counted.
C5_CountConservation ==
    (pc = "done" /\ chat_data # << >>)
        => SumValues(activity_by_window) =
               Cardinality(AskedInRange(chat_data, start_time, end_time))

\* C6: every message of the asked range with time t is in window
\* (t - start_time) // W, start_time being the caller's value whenever one is
\* supplied (0 included) and the least message time otherwise.
C6_WindowIndex ==
    (pc \in {"grouped", "done"} /\ chat_data # << >>)
        => \A i \in AskedInRange(chat_data, start_time, end_time) :
               WindowsOf(messages_by_window, chat_data[i]) =
                   {FloorDiv(chat_data[i].time_in_seconds
                                 - AskedStart(chat_data, start_time), window_size)}

\* C7: the list returned by analyze_chat_moments, and by create_moment_data for
\* any selection, is sorted ascending by timestamp, and moments with equal
\* timestamps keep the order in which they were selected.
\* the moments of a list that carry timestamp t, in the order of the list
AtTimestamp(md, t) == LET Here(m) == m.timestamp = t IN SelectSeq(md, Here)

StableSortOf(result, md) ==
    /\ Len(result) = Len(md)
    /\ \A i \in 1..(Len(result) - 1) : result[i].timestamp <= result[i+1].timestamp
    /\ \A t \in {md[i].timestamp : i \in 1..Len(md)} :
           AtTimestamp(result, t) = AtTimestamp(md, t)

C7_ChronologicalStable ==
    Returned =>
        StableSortOf(moments, MomentList(top_moments, messages_by_window,
                                         activity_by_window, slopes))

\* a selection that was not in time order and was put in order
C7_Witness ==
    /\ Returned
    /\ Len(moments) >= 2
    /\ moments # MomentList(top_moments, messages_by_window, activity_by_window, slopes)
    /\ \E i \in 1..(Len(moments) - 1) : moments[i].timestamp < moments[i+1].timestamp

\* C8: with all_moments = False the selected windows are the first min(K, n) of
\* the n windows with slope > 0, ordered by descending slope and, on equal
\* slopes, by ascending window index; all n of them when n < K.
RanksBefore(sl, a, b) ==
    \/ sl[a][1] * sl[b][2] > sl[b][1] * sl[a][2]
    \/ sl[a][1] * sl[b][2] = sl[b][1] * sl[a][2] /\ a < b

PositiveWindows(sl) == {w \in DOMAIN sl : sl[w][1] > 0}

DifferenceStep ==
    (pc = "call" /\ pc' = "done" /\ ~use_ratio)
        => /\ activity_by_window' = activity_by_window
           /\ DOMAIN slopes' = {w \in DOMAIN activity_by_window :
                                    \E v \in DOMAIN activity_by_window : v < w}
           /\ \A w \in DOMAIN slopes' :
                  slopes'[w] = <<activity_by_window[w]
                                   - activity_by_window[PrevKey(activity_by_window, w)], 1>>

C9_DifferenceSlopes == [][DifferenceStep]_vars

\* the scenario {0:1, 1:3, 2:2, 3:4} -> {1:2, 2:-1, 3:2}
C9_Witness ==
    /\ Returned /\ ~use_ratio
    /\ activity_by_window = (0 :> 1 @@ 1 :> 3 @@ 2 :> 2 @@ 3 :> 4)
    /\ slopes = (1 :> <<2, 1>> @@ 2 :> <<0 - 1, 1>> @@ 3 :> <<2, 1>>)

\* C10: analyze_chat_moments returns the empty list and raises nothing when the
\* event list is empty, or when valid arguments give a range [start_time,
\* end_time] that holds no message.
ValidArguments == window_size > 0 /\ (HasCap => Val(num_moments) > 0)

C10_EmptyIsNotAnError ==
    (/\ pc = "done"
     /\ \/ chat_data = << >>
        \/ ValidArguments /\ AskedInRange(chat_data, start_time, end_time) = {})
        => outcome = "return" /\ moments = << >>

\* C11: time_to_seconds returns hours*3600 + minutes*60 + seconds for every
\* string of exactly three numeric fields separated by ':', and fails with
\* ValueError for every other string: a non-numeric field, or fewer or more
\* than three fields.
IsNumeric(field) == field # << >> /\ \A i \in 1..Len(field) : field[i] \in Digits

WellFormedTime(str) ==
    LET fields == Split(str)
    IN  Len(fields) = 3 /\ \A i \in 1..3 : IsNumeric(fields[i])

C11_ParseOrReject ==
    pc = "done"
        => IF WellFormedTime(time_str)
           THEN LET fields == Split(time_str)
                IN  /\ outcome = "return"
                    /\ start_time = Some(IntOf(fields[1]) * 3600
                                         + IntOf(fields[2]) * 60 + IntOf(fields[3]))
           ELSE outcome = "ValueError"

\* C12: with all_moments = True analyze_chat_moments returns exactly one moment
\* for every window that holds at least one message, the chronologically first
\* such window included, whatever num_moments and the sign of the slope are.
C12_AllMoments ==
    (Returned /\ all_moments /\ chat_data # << >> /\ window_size > 0)
        => LET held == NonEmptyWindows(messages_by_window)
           IN  /\ Len(moments) = Cardinality(held)
               /\ {moments[i].messages : i \in 1..Len(moments)} =
                      {messages_by_window[w] : w \in held}

\* C13: every returned moment describes one selected window with a non-empty
\* bucket: its messages are that bucket's messages in input order, its count is
\* their number (>= 1), its timestamp is the time of the first of them and lies
\* in [anchor + i*W, anchor + (i+1)*W), its slope is the window's slope; a
\* selected window with an empty bucket gives no moment and no two moments
\* describe the same window.
InInputOrder(messages) ==
    \A i, j \in 1..Len(messages) : i < j => messages[i].message < messages[j].message

Describes(m, w, anchor) ==
    /\ w \in DOMAIN messages_by_window
    /\ messages_by_window[w] # << >>
    /\ m.messages = messages_by_window[w]
    /\ Range(m.messages) \subseteq Range(chat_data)
    /\ InInputOrder(m.messages)
    /\ m.message_count = Len(m.messages)
    /\ m.message_count >= 1
    /\ m.timestamp = m.messages[1].time_in_seconds
    /\ anchor + w * window_size <= m.timestamp
    /\ m.timestamp < anchor + (w + 1) * window_size
    /\ w \in DOMAIN slopes
    /\ m.slope = slopes[w]

MomentsDescribeWindows(anchor) ==
    LET selected == {w \in Range(top_moments) : messages_by_window[w] # << >>}
    IN  /\ Len(moments) = Cardinality(selected)
        /\ \A w \in selected :
               Cardinality({i \in 1..Len(moments) : Describes(moments[i], w, anchor)}) = 1
        /\ \A i \in 1..Len(moments) :
               Cardinality({w \in selected : Describes(moments[i], w, anchor)}) = 1

C13_MomentOfWindow ==
    (Returned /\ chat_data # << >>)
        => MomentsDescribeWindows(AskedStart(chat_data, start_time))

====
